---------------------------- MODULE Spec2Model ----------------------------
(***************************************************************************)
(* Model of mandelbrot_model.cpp: the algorithmic-level ("golden") model   *)
(* of a Mandelbrot drawing engine in Q3.29 fixed point.                    *)
(*                                                                         *)
(* The program's int64_t / uint64_t values do not fit the integers of the  *)
(* model checker, so they are carried as exact integers of unbounded size  *)
(* ("wide" values): a sign and a little-endian sequence of 15-bit limbs.   *)
(* The widths of the C++ types are applied explicitly where the code        *)
(* stores a value (Wrap, ToUnsigned, Fits).  int32_t values and ints are    *)
(* ordinary integers.                                                      *)
(***************************************************************************)
EXTENDS Integers, Sequences, FiniteSets, TLC

(***************************************************************************)
(* Program constants (#define lines 23-28).                                *)
(***************************************************************************)
XSIZE == 640
YSIZE == 480
BASE_INCREMENT_AMOUNT == 4000
FRAC_BITS == 29

(***************************************************************************)
(* Exact natural numbers: little-endian limbs in base 2^15, no leading     *)
(* zero limb; zero is the empty sequence.                                  *)
(***************************************************************************)
LimbBits == 15
Base == 32768

RECURSIVE Pow2Int(_)
Pow2Int(n) == IF n = 0 THEN 1 ELSE 2 * Pow2Int(n - 1)

RECURSIVE Trim(_)
Trim(s) ==
  IF s = <<>> THEN <<>>
  ELSE IF s[Len(s)] = 0 THEN Trim(SubSeq(s, 1, Len(s) - 1))
  ELSE s

RECURSIVE NatOfInt(_)
NatOfInt(n) == IF n = 0 THEN <<>> ELSE <<n % Base>> \o NatOfInt(n \div Base)

RECURSIVE NatAddC(_, _, _)
NatAddC(p, q, carry) ==
  IF p = <<>> /\ q = <<>> THEN (IF carry = 0 THEN <<>> ELSE <<carry>>)
  ELSE LET dp == IF p = <<>> THEN 0 ELSE Head(p)
           dq == IF q = <<>> THEN 0 ELSE Head(q)
           s  == dp + dq + carry
       IN  <<s % Base>> \o NatAddC(IF p = <<>> THEN <<>> ELSE Tail(p),
                                   IF q = <<>> THEN <<>> ELSE Tail(q),
                                   s \div Base)

NatAdd(p, q) == NatAddC(p, q, 0)

RECURSIVE NatCmpAt(_, _, _)
NatCmpAt(p, q, k) ==
  IF k = 0 THEN 0
  ELSE IF p[k] < q[k] THEN -1
  ELSE IF p[k] > q[k] THEN 1
  ELSE NatCmpAt(p, q, k - 1)

\* -1, 0, 1 as p <, =, > q
NatCmp(p, q) ==
  IF Len(p) < Len(q) THEN -1
  ELSE IF Len(p) > Len(q) THEN 1
  ELSE NatCmpAt(p, q, Len(p))

RECURSIVE NatSubB(_, _, _)
NatSubB(p, q, borrow) ==
  IF p = <<>> THEN <<>>
  ELSE LET dq == IF q = <<>> THEN 0 ELSE Head(q)
           d  == Head(p) - dq - borrow
       IN  <<IF d < 0 THEN d + Base ELSE d>>
             \o NatSubB(Tail(p), IF q = <<>> THEN <<>> ELSE Tail(q),
                        IF d < 0 THEN 1 ELSE 0)

\* p - q for p >= q
NatSub(p, q) == Trim(NatSubB(p, q, 0))

RECURSIVE NatMulLimb(_, _, _)
NatMulLimb(p, d, carry) ==
  IF p = <<>> THEN (IF carry = 0 THEN <<>> ELSE <<carry>>)
  ELSE LET s == Head(p) * d + carry
       IN  <<s % Base>> \o NatMulLimb(Tail(p), d, s \div Base)

RECURSIVE NatMul(_, _)
NatMul(p, q) ==
  IF p = <<>> \/ q = <<>> THEN <<>>
  ELSE LET rest == NatMul(p, Tail(q))
       IN  Trim(NatAdd(NatMulLimb(p, Head(q), 0),
                       IF rest = <<>> THEN <<>> ELSE <<0>> \o rest))

\* 2^n
NatPow2(n) == [k \in 1..(n \div LimbBits) |-> 0] \o <<Pow2Int(n % LimbBits)>>

\* p * 2^n
NatShl(p, n) == NatMul(p, NatPow2(n))

\* floor(p / 2^n): whole limbs are dropped, then the remaining r bits are
\* shifted out limb by limb
NatShr(p, n) ==
  LET drop == n \div LimbBits
      r    == n % LimbBits
      lo   == Pow2Int(r)
      hi   == Pow2Int(LimbBits - r)
      t    == IF drop >= Len(p) THEN <<>> ELSE SubSeq(p, drop + 1, Len(p))
  IN  Trim([k \in 1..Len(t) |->
              (t[k] \div lo) + (IF k < Len(t) THEN (t[k + 1] % lo) * hi ELSE 0)])

\* p mod 2^n
NatLow(p, n) ==
  LET keep == n \div LimbBits
      r    == n % LimbBits
  IN  IF Len(p) <= keep THEN p
      ELSE Trim(SubSeq(p, 1, keep) \o <<p[keep + 1] % Pow2Int(r)>>)

(***************************************************************************)
(* Exact signed integers: [neg, mag]; zero is never negative.              *)
(***************************************************************************)
WMake(neg, mag) == [neg |-> neg /\ mag # <<>>, mag |-> mag]
WNat(mag) == [neg |-> FALSE, mag |-> mag]
W0 == WNat(<<>>)

\* an ordinary integer as a wide value
W(i) == IF i >= 0 THEN WNat(NatOfInt(i))
        ELSE WMake(TRUE, NatAdd(NatOfInt(-(i + 1)), <<1>>))

WNeg(v) == WMake(~v.neg, v.mag)

WAdd(v, w) ==
  IF v.neg = w.neg THEN WMake(v.neg, NatAdd(v.mag, w.mag))
  ELSE IF NatCmp(v.mag, w.mag) >= 0 THEN WMake(v.neg, NatSub(v.mag, w.mag))
  ELSE WMake(w.neg, NatSub(w.mag, v.mag))

WSub(v, w) == WAdd(v, WNeg(w))

WMul(v, w) == WMake(v.neg # w.neg, NatMul(v.mag, w.mag))

WLess(v, w) ==
  IF v.neg /\ ~w.neg THEN TRUE
  ELSE IF ~v.neg /\ w.neg THEN FALSE
  ELSE IF v.neg THEN NatCmp(v.mag, w.mag) > 0
  ELSE NatCmp(v.mag, w.mag) < 0

WLeq(v, w) == ~WLess(w, v)

\* 2^n as a wide value
WPow2(n) == WNat(NatPow2(n))

(***************************************************************************)
(* Fixed-width two's complement.                                           *)
(***************************************************************************)
\* the bit pattern (a natural below 2^bits) that stores v
ToUnsigned(v, bits) ==
  LET low == NatLow(v.mag, bits)
  IN  IF ~v.neg \/ low = <<>> THEN WNat(low)
      ELSE WNat(NatSub(NatPow2(bits), low))

\* the signed value a bit pattern below 2^bits stands for
ToSigned(u, bits) ==
  IF WLess(u, WPow2(bits - 1)) THEN u ELSE WSub(u, WPow2(bits))

\* v as stored in a signed variable of the given width
Wrap(v, bits) == ToSigned(ToUnsigned(v, bits), bits)

\* v is representable in a signed variable of the given width
Fits(v, bits) == WLeq(WNeg(WPow2(bits - 1)), v) /\ WLess(v, WPow2(bits - 1))

\* a wide value within the ordinary integers, back as one
RECURSIVE NegIntOfNat(_)
NegIntOfNat(p) == IF p = <<>> THEN 0 ELSE NegIntOfNat(Tail(p)) * Base - Head(p)

ToInt(v) == IF v.neg THEN NegIntOfNat(v.mag) ELSE -NegIntOfNat(v.mag)

(***************************************************************************)
(* Arithmetic of the C++ types.                                            *)
(***************************************************************************)
\* v >> n for a signed 64-bit v: the bit pattern moves right by n and the
\* vacated top n bits are filled with copies of the sign bit
ShiftRight64(v, n) ==
  LET u      == ToUnsigned(v, 64)
      moved  == WNat(NatShr(u.mag, n))
      fill   == WSub(WPow2(64), WPow2(64 - n))
  IN  ToSigned(IF v.neg THEN WAdd(moved, fill) ELSE moved, 64)

\* v << n for a signed 64-bit v: the bit pattern moves left, bits above
\* bit 63 are lost
ShiftLeft64(v, n) == Wrap(WNat(NatShl(ToUnsigned(v, 64).mag, n)), 64)

\* the exact quotient floor(v / 2^n)
WFloorShift(v, n) ==
  IF v.neg
  THEN WNeg(WNat(NatShr(NatAdd(v.mag, NatSub(NatPow2(n), <<1>>)), n)))
  ELSE WNat(NatShr(v.mag, n))

\* the mathematical product a * b formed inside fixed_mult (line 133)
Product(a, b) == WMul(a, b)

\* fixed_mult as it would be with a division, which rounds towards zero
fixed_mult_towards_zero(a, b) ==
  LET prod == Wrap(WMul(a, b), 64)
  IN  WMake(prod.neg, NatShr(prod.mag, FRAC_BITS))

\* fixed_mult (lines 131-134): (a * b) >> FRAC_BITS in int64_t, the product
\* stored modulo 2^64 (what a build without overflow traps leaves)
fixed_mult(a, b) == ShiftRight64(Wrap(Product(a, b), 64), FRAC_BITS)

(***************************************************************************)
(* get_spread_colour_index (lines 49-60); x >> k of a non-negative int is  *)
(* the quotient by 2^k                                                     *)
(***************************************************************************)
\* get_spread_colour_index without the clamp of lines 54-59
spread_unclamped(its, max_its) ==
  IF max_its < 16 THEN its
  ELSE its * ((max_its \div 16) - (max_its \div 32)
              - (max_its \div 64) - (max_its \div 1024))

\* get_spread_colour_index counting the buckets from the first pass
spread_zero_based(its, max_its) ==
  IF max_its < 16 THEN its - 1
  ELSE LET spread_value ==
             (its - 1) * ((max_its \div 16) - (max_its \div 32)
                          - (max_its \div 64) - (max_its \div 1024))
       IN  IF spread_value < max_its THEN spread_value ELSE max_its - 1

get_spread_colour_index(its, max_its) ==
  IF max_its < 16 THEN its
  ELSE LET spread_value ==
             its * ((max_its \div 16) - (max_its \div 32)
                    - (max_its \div 64) - (max_its \div 1024))
       IN  IF spread_value < max_its THEN spread_value ELSE max_its - 1

(***************************************************************************)
(* main's clamp of max_iterations (lines 241-246)                          *)
(***************************************************************************)
MAX_ITERATIONS == 1023

ClampMaxIterations(m) ==
  IF m <= 0 THEN 1 ELSE IF m > MAX_ITERATIONS THEN 1 ELSE m

(***************************************************************************)
(* center_coords (lines 205-218): the clamp of zoom and the step size      *)
(***************************************************************************)
MAX_ZOOM == 10

\* a clamp to the nearest valid zoom
ClampZoomNearest(z) == IF z > MAX_ZOOM THEN MAX_ZOOM ELSE IF z < 0 THEN 0 ELSE z

ClampZoom(z) == IF z > MAX_ZOOM THEN 0 ELSE IF z < 0 THEN 0 ELSE z

\* BASE_INCREMENT_AMOUNT * (1 << (10 - zoom)) for the clamped zoom
StepSize(z) == BASE_INCREMENT_AMOUNT * Pow2Int(MAX_ZOOM - z)

(***************************************************************************)
(* drawMandelbrot (lines 136-168): the tests of the escape-time loop       *)
(***************************************************************************)
\* 4ULL << FRAC_BITS
EscapeLimit == WMul(W(4), WPow2(FRAC_BITS))

\* the loop test with a strict comparison of the modulus
LoopGuardStrict(mod_sq, its, max_its) == WLess(mod_sq, EscapeLimit) /\ its < max_its

\* the loop test with one pass too many
LoopGuardInclusive(mod_sq, its, max_its) ==
  WLeq(mod_sq, EscapeLimit) /\ its <= max_its

\* (modulus_sq <= (4ULL << FRAC_BITS)) && (iterations < max_iterations)
LoopGuard(mod_sq, its, max_its) == WLeq(mod_sq, EscapeLimit) /\ its < max_its

\* if (iterations < max_iterations) (line 156)
Escaped(its, max_its) == its < max_its

\* the colour of a sample that did not escape (line 160)
InteriorColour == 0

\* the grey main fills the frame buffer with (line 259)
GREY == 31727

\* conversion of an int result to uint16_t (colour, r, g, b)
U16(v) == v % 65536

RECURSIVE BitOr(_, _)
BitOr(p, q) ==
  IF p = 0 /\ q = 0 THEN 0
  ELSE (IF p % 2 = 1 \/ q % 2 = 1 THEN 1 ELSE 0) + 2 * BitOr(p \div 2, q \div 2)

\* RGB565 component macros (lines 31-33)
RED(colour)   == (colour \div 2048) % 32
GREEN(colour) == (colour \div 32) % 64
BLUE(colour)  == colour % 32

\* (r << 11) | (g << 5) | b stored in a colour (line 96)
Recombine(rr, gg, bb) == U16(BitOr(BitOr(rr * 2048, gg * 32), bb))

(***************************************************************************)
(* State.  One test case of main's loop: the variables of main and the     *)
(* locals of the function that is executing; pc is the place in the code.  *)
(***************************************************************************)
VARIABLES
  pc,
  \* main
  max_iterations, interp_points, unique_colours, colour_map,
  center_x, center_y, zoom, c, framebuffer,
  \* generate_unique_colours / generate_colour_map
  i, colour_start, colour_end, r, g, b, r_inc, g_inc, b_inc,
  colour_index, step_size,
  \* drawMandelbrot
  x_fixed, y_fixed, inc_fixed, x_start, x, y,
  iterations, zr, zi, modulus_sq,
  \* a direct call of fixed_mult / get_spread_colour_index
  arg_a, arg_b, result

mainVars   == <<max_iterations, interp_points, unique_colours, colour_map,
                center_x, center_y, zoom, c, framebuffer>>
colourVars == <<i, colour_start, colour_end, r, g, b, r_inc, g_inc, b_inc,
                colour_index, step_size>>
drawVars   == <<x_fixed, y_fixed, inc_fixed, x_start, x, y,
                iterations, zr, zi, modulus_sq>>
callVars   == <<arg_a, arg_b, result>>
vars       == <<pc, mainVars, colourVars, drawVars, callVars>>

(***************************************************************************)
(* generate_unique_colours (lines 63-100)                                  *)
(***************************************************************************)
\* interpolation direction of one component (lines 75-77)
\* the direction with the operands exchanged
DirectionSwapped(end_c, start_c) == IF start_c - end_c > 0 THEN 1 ELSE -1

Direction(end_c, start_c) == IF end_c - start_c > 0 THEN 1 ELSE -1

\* one step of a component towards its end value (lines 85-93)
StepComponent(v, end_c, inc) == IF v # end_c THEN U16(v + inc) ELSE v

\* for (int i = 0; i < 5; i++): the body up to the first push_back
SegmentStart ==
  /\ pc = "guc_for"
  /\ i < 5
  /\ LET cs == interp_points[i + 1]
         ce == interp_points[i + 2]
     IN  /\ colour_start' = cs
         /\ colour_end' = ce
         /\ r' = RED(cs)
         /\ g' = GREEN(cs)
         /\ b' = BLUE(cs)
         /\ b_inc' = Direction(BLUE(ce), BLUE(cs))
         /\ g_inc' = Direction(GREEN(ce), GREEN(cs))
         /\ r_inc' = Direction(RED(ce), RED(cs))
         /\ unique_colours' = Append(unique_colours, cs)
  /\ pc' = "guc_while"
  /\ UNCHANGED <<max_iterations, interp_points, colour_map, center_x, center_y,
                 zoom, c, framebuffer, i, colour_index, step_size,
                 drawVars, callVars>>

\* one pass of while (colour_start != colour_end)
Interpolate ==
  /\ pc = "guc_while"
  /\ colour_start # colour_end
  /\ r' = StepComponent(r, RED(colour_end), r_inc)
  /\ g' = StepComponent(g, GREEN(colour_end), g_inc)
  /\ b' = StepComponent(b, BLUE(colour_end), b_inc)
  /\ colour_start' = Recombine(r', g', b')
  /\ unique_colours' = Append(unique_colours, colour_start')
  /\ UNCHANGED <<pc, max_iterations, interp_points, colour_map, center_x,
                 center_y, zoom, c, framebuffer, i, colour_end,
                 r_inc, g_inc, b_inc, colour_index, step_size,
                 drawVars, callVars>>

\* the while loop ends, i++
SegmentEnd ==
  /\ pc = "guc_while"
  /\ colour_start = colour_end
  /\ i' = i + 1
  /\ pc' = "guc_for"
  /\ UNCHANGED <<mainVars, colour_start, colour_end, r, g, b,
                 r_inc, g_inc, b_inc, colour_index, step_size,
                 drawVars, callVars>>

\* the for loop ends, generate_unique_colours returns and main calls
\* generate_colour_map (line 253)
UniqueReturn ==
  /\ pc = "guc_for"
  /\ i >= 5
  /\ pc' = "gcm_call"
  /\ UNCHANGED <<mainVars, colourVars, drawVars, callVars>>

(***************************************************************************)
(* generate_colour_map (lines 102-128)                                     *)
(***************************************************************************)
\* int(unique_colours.size() / max_iterations) (line 107)
DownStepSize(size, m) == size \div m

\* the stride of the repeating branch rounded down
UpStepSizeFloor(m, size) == m \div size

\* std::ceil(double(max_iterations) / double(unique_colours.size())) (line
\* 118); both operands are below 2^53 and a quotient that is not an integer
\* is at least 1/size away from one, so the double arithmetic is exact
UpStepSize(m, size) == (m + size - 1) \div size

\* a loop condition that includes the bound
MapLoopCondInclusive(k, m) == k <= m

\* the loop condition of both for loops (lines 108, 119)
MapLoopCond(k, m) == k < m

\* line 106 taken: sample the unique colours with a stride
MapBeginDown ==
  /\ pc = "gcm_call"
  /\ Len(unique_colours) > max_iterations
  /\ colour_index' = 0
  /\ step_size' = DownStepSize(Len(unique_colours), max_iterations)
  /\ i' = 0
  /\ pc' = "gcm_down"
  /\ UNCHANGED <<mainVars, colour_start, colour_end, r, g, b,
                 r_inc, g_inc, b_inc, drawVars, callVars>>

\* line 116 taken: repeat unique colours
MapBeginUp ==
  /\ pc = "gcm_call"
  /\ ~(Len(unique_colours) > max_iterations)
  /\ colour_index' = 0
  /\ step_size' = UpStepSize(max_iterations, Len(unique_colours))
  /\ i' = 0
  /\ pc' = "gcm_up"
  /\ UNCHANGED <<mainVars, colour_start, colour_end, r, g, b,
                 r_inc, g_inc, b_inc, drawVars, callVars>>

\* one pass of the loop of lines 108-113; unique_colours.at() throws
\* std::out_of_range, which nothing catches, when the index is past the end
MapDownStep ==
  /\ pc = "gcm_down"
  /\ MapLoopCond(i, max_iterations)
  /\ IF colour_index < Len(unique_colours)
     THEN /\ colour_map' = Append(colour_map, unique_colours[colour_index + 1])
          /\ colour_index' = colour_index + step_size
          /\ i' = i + 1
          /\ UNCHANGED pc
     ELSE /\ pc' = "out_of_range"
          /\ UNCHANGED <<colour_map, colour_index, i>>
  /\ UNCHANGED <<max_iterations, interp_points, unique_colours, center_x,
                 center_y, zoom, c, framebuffer, colour_start, colour_end,
                 r, g, b, r_inc, g_inc, b_inc, step_size, drawVars, callVars>>

\* one pass of the loop of lines 119-126
MapUpStep ==
  /\ pc = "gcm_up"
  /\ MapLoopCond(i, max_iterations)
  /\ IF colour_index < Len(unique_colours)
     THEN /\ colour_map' = Append(colour_map, unique_colours[colour_index + 1])
          /\ colour_index' = IF (i + 1) % step_size = 0
                             THEN colour_index + 1 ELSE colour_index
          /\ i' = i + 1
          /\ UNCHANGED pc
     ELSE /\ pc' = "out_of_range"
          /\ UNCHANGED <<colour_map, colour_index, i>>
  /\ UNCHANGED <<max_iterations, interp_points, unique_colours, center_x,
                 center_y, zoom, c, framebuffer, colour_start, colour_end,
                 r, g, b, r_inc, g_inc, b_inc, step_size, drawVars, callVars>>

\* either loop ends and generate_colour_map returns
MapReturn ==
  /\ pc \in {"gcm_down", "gcm_up"}
  /\ ~MapLoopCond(i, max_iterations)
  /\ pc' = "fill"
  /\ UNCHANGED <<mainVars, colourVars, drawVars, callVars>>

(***************************************************************************)
(* main (lines 220-275), one test case                                     *)
(***************************************************************************)
\* the frame buffer rows and columns the model follows: the first YWin rows
\* and XWin columns of the YSIZE x XSIZE frame
XWin == 2
YWin == 2
XLimit == IF XWin < XSIZE THEN XWin ELSE XSIZE
YLimit == IF YWin < YSIZE THEN YWin ELSE YSIZE

\* lines 241-252: clamp max_iterations, call generate_unique_colours
ClampIterations ==
  /\ pc = "main"
  /\ max_iterations' = ClampMaxIterations(max_iterations)
  /\ i' = 0
  /\ pc' = "guc_for"
  /\ UNCHANGED <<interp_points, unique_colours, colour_map, center_x, center_y,
                 zoom, c, framebuffer, colour_start, colour_end, r, g, b,
                 r_inc, g_inc, b_inc, colour_index, step_size,
                 drawVars, callVars>>

\* lines 256-261: the frame buffer is filled with grey
FillGrey ==
  /\ pc = "fill"
  /\ framebuffer' = [row \in 0..(YLimit - 1) |-> [col \in 0..(XLimit - 1) |-> GREY]]
  /\ pc' = "center"
  /\ UNCHANGED <<max_iterations, interp_points, unique_colours, colour_map,
                 center_x, center_y, zoom, c, colourVars, drawVars, callVars>>

(***************************************************************************)
(* center_coords (lines 205-218).  The subtraction and the addition are    *)
(* done in int32_t; when the exact result does not fit, the behaviour is   *)
(* undefined: a build either keeps the low 32 bits or traps.               *)
(***************************************************************************)
ExactX(cx, z) == WSub(W(cx), W((XSIZE \div 2) * StepSize(ClampZoom(z))))
ExactY(cy, z) == WAdd(W(cy), W((YSIZE \div 2) * StepSize(ClampZoom(z))))

CenterCoords ==
  /\ pc = "center"
  /\ \E outcome \in IF Fits(ExactX(center_x, zoom), 32) /\ Fits(ExactY(center_y, zoom), 32)
                    THEN {"defined"} ELSE {"wrap", "trap"} :
       IF outcome = "trap"
       THEN /\ pc' = "trap"
            /\ UNCHANGED c
       ELSE /\ c' = [x    |-> ToInt(Wrap(ExactX(center_x, zoom), 32)),
                     y    |-> ToInt(Wrap(ExactY(center_y, zoom), 32)),
                     step |-> StepSize(ClampZoom(zoom))]
            /\ pc' = "draw_call"
  /\ UNCHANGED <<max_iterations, interp_points, unique_colours, colour_map,
                 center_x, center_y, zoom, framebuffer, colourVars, drawVars,
                 callVars>>

(***************************************************************************)
(* drawMandelbrot (lines 136-168)                                          *)
(***************************************************************************)
\* the call (line 265) up to the first test of the while loop
DrawBegin ==
  /\ pc = "draw_call"
  /\ x_fixed' = c.x
  /\ y_fixed' = c.y
  /\ inc_fixed' = c.step
  /\ x_start' = c.x
  /\ y' = 0
  /\ x' = 0
  /\ iterations' = 0
  /\ zr' = W0
  /\ zi' = W0
  /\ modulus_sq' = W0
  /\ pc' = "loop"
  /\ UNCHANGED <<mainVars, colourVars, callVars>>

\* every product formed by one pass of the loop fits int64_t
ProductsFit(re, im) ==
  /\ Fits(Product(re, re), 64)
  /\ Fits(Product(im, im), 64)
  /\ Fits(Product(re, im), 64)

\* one pass of the while loop (lines 146-153); a product that does not fit
\* int64_t is undefined behaviour: a build either keeps the low 64 bits or
\* traps
LoopPass ==
  /\ pc = "loop"
  /\ LoopGuard(modulus_sq, iterations, max_iterations)
  /\ \E outcome \in IF ProductsFit(zr, zi) THEN {"defined"} ELSE {"wrap", "trap"} :
       IF outcome = "trap"
       THEN /\ pc' = "trap"
            /\ UNCHANGED <<modulus_sq, zr, zi, iterations>>
       ELSE /\ modulus_sq' = ToUnsigned(WAdd(fixed_mult(zr, zr), fixed_mult(zi, zi)), 64)
            /\ zr' = Wrap(WAdd(WSub(fixed_mult(zr, zr), fixed_mult(zi, zi)),
                               W(x_fixed)), 64)
            /\ zi' = Wrap(WAdd(ShiftLeft64(fixed_mult(zr, zi), 1), W(y_fixed)), 64)
            /\ iterations' = iterations + 1
            /\ UNCHANGED pc
  /\ UNCHANGED <<mainVars, colourVars, x_fixed, y_fixed, inc_fixed, x_start,
                 x, y, callVars>>

\* lines 156-161: the pixel is written; colour_map.at() throws
\* std::out_of_range when the index is not below the map's size
PixelWrite ==
  /\ pc = "loop"
  /\ ~LoopGuard(modulus_sq, iterations, max_iterations)
  /\ IF Escaped(iterations, max_iterations)
     THEN LET idx == get_spread_colour_index(iterations, max_iterations)
          IN  IF idx >= 0 /\ idx < Len(colour_map)
              THEN /\ framebuffer' = [framebuffer EXCEPT ![y][x] = colour_map[idx + 1]]
                   /\ pc' = "written"
              ELSE /\ pc' = "out_of_range"
                   /\ UNCHANGED framebuffer
     ELSE /\ framebuffer' = [framebuffer EXCEPT ![y][x] = InteriorColour]
          /\ pc' = "written"
  /\ UNCHANGED <<max_iterations, interp_points, unique_colours, colour_map,
                 center_x, center_y, zoom, c, colourVars, drawVars, callVars>>

\* line 163 and the next pass of the loop over x
NextColumn ==
  /\ pc = "written"
  /\ x + 1 < XLimit
  /\ x_fixed' = x_fixed + inc_fixed
  /\ x' = x + 1
  /\ iterations' = 0
  /\ zr' = W0
  /\ zi' = W0
  /\ modulus_sq' = W0
  /\ pc' = "loop"
  /\ UNCHANGED <<mainVars, colourVars, y_fixed, inc_fixed, x_start, y, callVars>>

\* the loop over x ends (lines 165-166) and the loop over y goes on
NextRow ==
  /\ pc = "written"
  /\ ~(x + 1 < XLimit)
  /\ y + 1 < YLimit
  /\ y_fixed' = y_fixed - inc_fixed
  /\ x_fixed' = x_start
  /\ y' = y + 1
  /\ x' = 0
  /\ iterations' = 0
  /\ zr' = W0
  /\ zi' = W0
  /\ modulus_sq' = W0
  /\ pc' = "loop"
  /\ UNCHANGED <<mainVars, colourVars, inc_fixed, x_start, callVars>>

\* both loops end: drawMandelbrot returns
DrawReturn ==
  /\ pc = "written"
  /\ ~(x + 1 < XLimit)
  /\ ~(y + 1 < YLimit)
  /\ y_fixed' = y_fixed - inc_fixed
  /\ x_fixed' = x_start
  /\ pc' = "done"
  /\ UNCHANGED <<mainVars, colourVars, inc_fixed, x_start, x, y,
                 iterations, zr, zi, modulus_sq, callVars>>

(***************************************************************************)
(* Direct calls of the two pure functions                                  *)
(***************************************************************************)
\* fixed_mult(arg_a, arg_b)
CallFixedMult ==
  /\ pc = "call_mult"
  /\ \E outcome \in IF Fits(Product(arg_a, arg_b), 64)
                    THEN {"defined"} ELSE {"wrap", "trap"} :
       IF outcome = "trap"
       THEN /\ pc' = "trap"
            /\ UNCHANGED result
       ELSE /\ result' = fixed_mult(arg_a, arg_b)
            /\ pc' = "returned_mult"
  /\ UNCHANGED <<mainVars, colourVars, drawVars, arg_a, arg_b>>

\* get_spread_colour_index(arg_a, arg_b)
CallSpread ==
  /\ pc = "call_spread"
  /\ result' = get_spread_colour_index(arg_a, arg_b)
  /\ pc' = "returned_spread"
  /\ UNCHANGED <<mainVars, colourVars, drawVars, arg_a, arg_b>>

(***************************************************************************)
(* Bounds of the model and the inputs drawn within them                    *)
(***************************************************************************)
MaxIter == 6
GridN == 4
MaxIterColour == 9
MaxUnique == 32
MaxIterMap == 64
ZoomSlack == 2
MultN == 5
MultUnit == 189812531

MinInt32 == -2147483647 - 1
MaxInt32 == 2147483647

\* max_iterations as read from the input line: in range, and out of range
\* on both sides
RawIterations(bound) == (0..bound) \cup {MAX_ITERATIONS + 1}

\* sample points: multiples of 0.5 in Q3.29
GridUnit == Pow2Int(FRAC_BITS - 1)
TargetCoords == {k * GridUnit : k \in (-GridN)..GridN}

\* the anchors of a black to white ramp: 0x0000, 0x2104, 0x4208, 0x630C,
\* 0x8410, 0xFFFF
RampAnchors == <<0, 8452, 16904, 25356, 33808, 65535>>

\* six equal anchors (white): five unique colours
FlatAnchors == <<65535, 65535, 65535, 65535, 65535, 65535>>

\* black and white in turn: five segments of 64 colours, the longest path
ZigZagAnchors == <<0, 65535, 0, 65535, 0, 65535>>

\* anchors whose components differ by different amounts in different
\* directions: (0,0,0), (2,5,1), (3,1,3)
Palette == {Recombine(0, 0, 0), Recombine(2, 5, 1), Recombine(3, 1, 3)}

\* operands of fixed_mult: multiples of an odd unit of both signs, 1.0, 6.0
\* and the ends of the int64_t range
MultOperands ==
  {W(k * MultUnit) : k \in (-MultN)..MultN}
    \cup {W(1), W(-1), WPow2(FRAC_BITS), WNeg(WPow2(FRAC_BITS)),
          WMul(W(6), WPow2(FRAC_BITS)), WMul(W(-6), WPow2(FRAC_BITS)),
          WNeg(WPow2(63)), WSub(WPow2(63), W(1))}

(***************************************************************************)
(* Initial states                                                          *)
(***************************************************************************)
NoCase ==
  /\ unique_colours = <<>>
  /\ colour_map = <<>>
  /\ c = [x |-> 0, y |-> 0, step |-> 0]
  /\ framebuffer = <<>>

NoColourLocals ==
  /\ i = 0 /\ colour_start = 0 /\ colour_end = 0
  /\ r = 0 /\ g = 0 /\ b = 0
  /\ r_inc = 0 /\ g_inc = 0 /\ b_inc = 0
  /\ colour_index = 0 /\ step_size = 0

NoDrawLocals ==
  /\ x_fixed = 0 /\ y_fixed = 0 /\ inc_fixed = 0 /\ x_start = 0
  /\ x = 0 /\ y = 0 /\ iterations = 0
  /\ zr = W0 /\ zi = W0 /\ modulus_sq = W0

NoCall == arg_a = 0 /\ arg_b = 0 /\ result = 0

\* one line of the input file has been read (lines 231-240): ramp or flat
\* anchors, and a centre that puts the sample point (tx, ty) on pixel (0, 0)
Init ==
  /\ pc = "main"
  /\ max_iterations \in RawIterations(MaxIter)
  /\ interp_points \in {RampAnchors, FlatAnchors}
  /\ zoom \in {MAX_ZOOM, MAX_ZOOM + 1}
  /\ \E tx \in TargetCoords, ty \in TargetCoords :
       LET dx == (XSIZE \div 2) * StepSize(ClampZoom(zoom))
           dy == (YSIZE \div 2) * StepSize(ClampZoom(zoom))
       IN  /\ tx <= MaxInt32 - dx
           /\ ty >= MinInt32 + dy
           /\ center_x = tx + dx
           /\ center_y = ty - dy
  /\ NoCase /\ NoColourLocals /\ NoDrawLocals /\ NoCall

Next ==
  \/ ClampIterations
  \/ SegmentStart \/ Interpolate \/ SegmentEnd \/ UniqueReturn
  \/ MapBeginDown \/ MapBeginUp \/ MapDownStep \/ MapUpStep \/ MapReturn
  \/ FillGrey
  \/ CenterCoords
  \/ DrawBegin \/ LoopPass \/ PixelWrite \/ NextColumn \/ NextRow \/ DrawReturn

Spec == Init /\ [][Next]_vars

\* the colour map of any six anchors of the palette, of the ramp and of the
\* longest path there is
InitColours ==
  /\ pc = "main"
  /\ max_iterations \in RawIterations(MaxIterColour)
  /\ interp_points \in [1..6 -> Palette] \cup {RampAnchors, ZigZagAnchors}
  /\ zoom = 0 /\ center_x = 0 /\ center_y = 0
  /\ NoCase /\ NoColourLocals /\ NoDrawLocals /\ NoCall

NextColours ==
  \/ ClampIterations
  \/ SegmentStart \/ Interpolate \/ SegmentEnd \/ UniqueReturn
  \/ MapBeginDown \/ MapBeginUp \/ MapDownStep \/ MapUpStep \/ MapReturn

SpecColours == InitColours /\ [][NextColours]_vars

\* generate_colour_map called with any number of unique colours
InitColourMap ==
  /\ pc = "gcm_call"
  /\ max_iterations \in 1..MaxIterMap
  /\ interp_points = <<>>
  /\ unique_colours \in {[k \in 1..size |-> k - 1] : size \in 1..MaxUnique}
  /\ colour_map = <<>>
  /\ c = [x |-> 0, y |-> 0, step |-> 0]
  /\ framebuffer = <<>>
  /\ zoom = 0 /\ center_x = 0 /\ center_y = 0
  /\ NoColourLocals /\ NoDrawLocals /\ NoCall

NextColourMap ==
  \/ MapBeginDown \/ MapBeginUp \/ MapDownStep \/ MapUpStep \/ MapReturn

SpecColourMap == InitColourMap /\ [][NextColourMap]_vars

\* center_coords called with any centre and zoom
InitCoords ==
  /\ pc = "center"
  /\ max_iterations = 1
  /\ interp_points = <<>>
  /\ zoom \in (-ZoomSlack)..(MAX_ZOOM + ZoomSlack)
  /\ center_x \in TargetCoords \cup {MinInt32, MaxInt32}
  /\ center_y \in TargetCoords \cup {MinInt32, MaxInt32}
  /\ NoCase /\ NoColourLocals /\ NoDrawLocals /\ NoCall

NextCoords == CenterCoords

SpecCoords == InitCoords /\ [][NextCoords]_vars

\* fixed_mult called with any two operands
InitMult ==
  /\ pc = "call_mult"
  /\ arg_a \in MultOperands
  /\ arg_b \in MultOperands
  /\ result = 0
  /\ max_iterations = 1
  /\ interp_points = <<>>
  /\ zoom = 0 /\ center_x = 0 /\ center_y = 0
  /\ NoCase /\ NoColourLocals /\ NoDrawLocals

NextMult == CallFixedMult

SpecMult == InitMult /\ [][NextMult]_vars

\* get_spread_colour_index called with any max_iterations main can pass and
\* any iteration count below it
InitSpread ==
  /\ pc = "call_spread"
  /\ arg_b \in 1..MAX_ITERATIONS
  /\ arg_a \in 0..(arg_b - 1)
  /\ result = 0
  /\ max_iterations = 1
  /\ interp_points = <<>>
  /\ zoom = 0 /\ center_x = 0 /\ center_y = 0
  /\ NoCase /\ NoColourLocals /\ NoDrawLocals

NextSpread == CallSpread

SpecSpread == InitSpread /\ [][NextSpread]_vars

(***************************************************************************)
(* Properties                                                              *)
(***************************************************************************)
Last(q) == q[Len(q)]

\* the while loop of drawMandelbrot has ended for the current pixel
LoopExit == pc = "loop" /\ ~LoopGuard(modulus_sq, iterations, max_iterations)

\* q is the quotient floor(p / 2^FRAC_BITS), stated without a division
IsFloorQuotient(q, p) ==
  /\ WLeq(WMul(q, WPow2(FRAC_BITS)), p)
  /\ WLess(p, WMul(WAdd(q, W(1)), WPow2(FRAC_BITS)))

\* C1: for every max_iterations in [1,1023] and any six anchors,
\* generate_unique_colours followed by generate_colour_map completes (no
\* exception, no loop that runs on: the unique colours stay within five
\* segments of at most 64 colours, the map within max_iterations entries, and
\* every state before the return has a next step) and leaves exactly
\* max_iterations entries in the colour map, in both branches.
C1_ColourMapLength ==
  /\ pc # "out_of_range"
  /\ Len(unique_colours) <= 5 * 64
  /\ pc # "main" => Len(colour_map) <= max_iterations
  /\ pc # "fill" => ENABLED NextColours
  /\ pc = "fill" => Len(colour_map) = max_iterations

\* both branches have returned: here the repeating branch, with a stride
\* that does not divide max_iterations
C1_Witness ==
  /\ pc = "fill"
  /\ Len(unique_colours) < max_iterations
  /\ step_size > 1
  /\ max_iterations % step_size # 0
  /\ Len(colour_map) = max_iterations

\* C2: when the product fits int64_t, fixed_mult(a, b) is floor(a*b / 2^29),
\* also for a negative product; fixed_mult(1<<29, 1<<29) = 1<<29.
C2_FixedMultFloors ==
  pc = "returned_mult" =>
    /\ Fits(WMul(arg_a, arg_b), 64) => IsFloorQuotient(result, WMul(arg_a, arg_b))
    /\ (arg_a = WPow2(FRAC_BITS) /\ arg_b = WPow2(FRAC_BITS))
         => result = WPow2(FRAC_BITS)

\* a negative product that is no multiple of 2^29 has been shifted
C2_Witness ==
  /\ pc = "returned_mult"
  /\ WMul(arg_a, arg_b).neg
  /\ Fits(WMul(arg_a, arg_b), 64)
  /\ WMul(result, WPow2(FRAC_BITS)) # WMul(arg_a, arg_b)

\* C3: for 1 <= m <= 1023 and 0 <= i < m, get_spread_colour_index(i, m) is
\* in [0, m-1], a valid index of a colour map of length m.
C3_SpreadIndexInRange ==
  pc = "returned_spread" => (0 <= result /\ result <= arg_b - 1)

\* the clamp to m - 1 has acted
C3_Witness ==
  /\ pc = "returned_spread"
  /\ arg_b >= 16
  /\ arg_a * ((arg_b \div 16) - (arg_b \div 32) - (arg_b \div 64)
              - (arg_b \div 1024)) >= arg_b
  /\ result = arg_b - 1

\* C4: center_coords returns step = BASE_STEP * 2^(10 - zoom) for zoom in
\* [0,10], and for a zoom outside [0,10], on either side, the x, y and step
\* of zoom 0 with the same centre.
C4_CenterCoordsZoom ==
  pc = "draw_call" =>
    LET z0step == BASE_INCREMENT_AMOUNT * 1024
    IN  IF zoom \in 0..10
        THEN /\ c.step = BASE_INCREMENT_AMOUNT * Pow2Int(10 - zoom)
             /\ zoom = 10 => c.step = BASE_INCREMENT_AMOUNT
             /\ zoom = 0 => c.step = z0step
        ELSE /\ c.step = z0step
             /\ W(c.x) = Wrap(WSub(W(center_x), W((XSIZE \div 2) * z0step)), 32)
             /\ W(c.y) = Wrap(WAdd(W(center_y), W((YSIZE \div 2) * z0step)), 32)

\* a negative zoom has been mapped
C4_Witness ==
  /\ pc = "draw_call"
  /\ zoom < 0
  /\ c.step = BASE_INCREMENT_AMOUNT * 1024
  /\ W(c.x) = WSub(W(center_x), W((XSIZE \div 2) * BASE_INCREMENT_AMOUNT * 1024))

\* C5: for the sample point (0,0) the loop keeps zr = zi = 0 and
\* modulus_sq = 0 in every pass, ends with iterations = max_iterations, and
\* the pixel is written as colour 0.
C5_OriginNeverEscapes ==
  (pc \in {"loop", "written"} /\ x_fixed = 0 /\ y_fixed = 0) =>
    /\ zr = W0 /\ zi = W0 /\ modulus_sq = W0
    /\ iterations <= max_iterations
    /\ (LoopExit \/ pc = "written") => iterations = max_iterations
    /\ pc = "written" => framebuffer[y][x] = 0

\* the pixel of sample (0,0) has been written after several passes
C5_Witness ==
  /\ pc = "written"
  /\ x_fixed = 0 /\ y_fixed = 0
  /\ iterations = max_iterations
  /\ max_iterations > 2
  /\ framebuffer[y][x] = 0

\* C6: within a segment every emitted colour has each channel between the
\* two anchors' values, a channel changes by at most 1 per step and only
\* towards the end anchor, and not at all once it equals the end value.
ChannelBetween(v, from, to) == (from <= v /\ v <= to) \/ (to <= v /\ v <= from)

ChannelStep(prev, next, from, to) ==
  /\ next - prev \in {0, IF to > from THEN 1 ELSE -1}
  /\ prev = to => next = prev

C6_ChannelsMonotonic ==
  [][(pc' = "guc_while" /\ Len(unique_colours') = Len(unique_colours) + 1) =>
       LET from == interp_points'[i' + 1]
           to   == interp_points'[i' + 2]
           next == Last(unique_colours')
       IN  /\ ChannelBetween(RED(next), RED(from), RED(to))
           /\ ChannelBetween(GREEN(next), GREEN(from), GREEN(to))
           /\ ChannelBetween(BLUE(next), BLUE(from), BLUE(to))
           /\ pc = "guc_for" => next = from
           /\ pc = "guc_while" =>
                LET prev == Last(unique_colours)
                IN  /\ ChannelStep(RED(prev), RED(next), RED(from), RED(to))
                    /\ ChannelStep(GREEN(prev), GREEN(next), GREEN(from), GREEN(to))
                    /\ ChannelStep(BLUE(prev), BLUE(next), BLUE(from), BLUE(to))
    ]_vars

\* inside a segment: red has reached its end value, green is still going
\* down and blue is going up
C6_Witness ==
  /\ pc = "guc_while"
  /\ colour_start # interp_points[i + 1]
  /\ r = RED(colour_end) /\ r # RED(interp_points[i + 1])
  /\ g # GREEN(colour_end) /\ g_inc = -1
  /\ b_inc = 1 /\ b # BLUE(interp_points[i + 1])

\* C7: every product formed inside fixed_mult by a pass of the escape-time
\* loop (zr*zr, zi*zi, zr*zi) fits the signed 64-bit accumulator.
C7_ProductsFitInt64 ==
  (pc = "loop" /\ LoopGuard(modulus_sq, iterations, max_iterations))
    => ProductsFit(zr, zi)

\* a sample already outside the circle of radius 2: none escapes sooner
OutsideRadiusTwo ==
  WLess(EscapeLimit, WAdd(WFloorShift(WMul(W(x_fixed), W(x_fixed)), FRAC_BITS),
                          WFloorShift(WMul(W(y_fixed), W(y_fixed)), FRAC_BITS)))

C9_IndexInRange ==
  /\ pc # "out_of_range"
  /\ (pc \in {"gcm_down", "gcm_up"} /\ MapLoopCond(i, max_iterations))
       => (0 <= colour_index /\ colour_index <= Len(unique_colours) - 1)

\* the repeating branch has filled the map with a stride that does not
\* divide max_iterations, the last read at the last unique colour
C9_Witness ==
  /\ pc = "gcm_up"
  /\ i = max_iterations
  /\ step_size > 1
  /\ max_iterations % step_size # 0
  /\ Last(colour_map) = Last(unique_colours)

\* C10: with z_0 = 0, z_(k+1) and M_k as in the claim (exact integers,
\* mult(a, b) = floor(a*b / 2^29)), the loop always runs its first pass, runs
\* at most max_iterations passes, and ends with iterations =
\* min(max_iterations, 1 + the least k with M_k > 4<<29); a sample that is
\* not reported escaped is written black.
RECURSIVE RefCount(_, _, _, _, _, _)
RefCount(re, im, k, sx, sy, m) ==
  LET rr == WFloorShift(WMul(re, re), FRAC_BITS)
      ii == WFloorShift(WMul(im, im), FRAC_BITS)
      ri == WFloorShift(WMul(re, im), FRAC_BITS)
  IN  IF k + 1 >= m THEN m
      ELSE IF WLess(EscapeLimit, WAdd(rr, ii)) THEN k + 1
      ELSE RefCount(WAdd(WSub(rr, ii), W(sx)), WAdd(WAdd(ri, ri), W(sy)),
                    k + 1, sx, sy, m)

C10_EscapeCount ==
  /\ (pc = "loop" /\ iterations = 0)
       => LoopGuard(modulus_sq, iterations, max_iterations)
  /\ pc \in {"loop", "written"} => iterations <= max_iterations
  /\ (LoopExit \/ pc = "written")
       => iterations = RefCount(W0, W0, 0, x_fixed, y_fixed, max_iterations)
  /\ (pc = "written" /\ ~Escaped(iterations, max_iterations))
       => framebuffer[y][x] = 0

\* a sample whose modulus first exceeds 4.0 at z_2 is reported escaped one
\* pass later, with iterations = 3
C10_Witness ==
  /\ pc = "written"
  /\ iterations = 3
  /\ max_iterations > 3
  /\ ~OutsideRadiusTwo
  /\ framebuffer[y][x] # 0

=============================================================================
